---- MODULE Spec2Model ----
(***************************************************************************)
(* Model of medical_bot.py: the conversation memory (ConversationManager), *)
(* the retry loop of MedicalLLMClient.chat and the on_send / on_clear /    *)
(* on_save handlers of build_chatbot_ui.                                   *)
(*                                                                         *)
(* A Python str is modelled as a sequence of one-character strings, so     *)
(* that str.lower(), str.strip(), the `in` substring test and the          *)
(* f-string concatenations are computed and not assumed.  Fixed pieces of  *)
(* text that no code inspects (the error banners) are kept as one element. *)
(***************************************************************************)
EXTENDS Integers, Sequences, FiniteSets, TLC

VARIABLES
    max_turns,    \* ConversationManager.max_turns
    history,      \* ConversationManager.history: sequence of [role, content]
    appended,     \* ghost: every turn passed to add() since construction / clear()
    view,         \* value returned by the last to_gemini_history() call
    latest,       \* value returned by the last latest_user_message() call
    lastOp,       \* name of the last ConversationManager method called
    retries,      \* chat(): parameter retries
    chatPc,       \* chat(): position ("idle", "loop", "returned", "raised")
    attempt,      \* chat(): loop variable attempt
    g_history,    \* chat(): local history = conversation.to_gemini_history()
    user_text,    \* chat(): local user_text = conversation.latest_user_message()
    sends,        \* ghost: number of chat_session.send_message calls of this chat()
    sleeps,       \* ghost: the time.sleep durations of this chat(), in order
    log,          \* ghost: the exceptions caught by this chat() and where
                  \* each was raised, in order
    chatResult,   \* chat(): what it returned or raised
    uiPc,         \* on_send: position ("boot", "idle", "chat")
    varied        \* ghost: deviations from the default exchange so far (a
                  \* non-default text, a failing chat() attempt)

vars == <<max_turns, history, appended, view, latest, lastOp,
          retries, chatPc, attempt, g_history, user_text, sends, sleeps, log,
          chatResult, uiPc, varied>>

storeVars == <<max_turns, history, appended, view, latest, lastOp>>
chatVars  == <<retries, chatPc, attempt, g_history, user_text, sends, sleeps,
               log, chatResult>>
uiVars    == <<uiPc, varied>>

----------------------------------------------------------------------------
(* Bounds of the model *)

MaxMT      == 1   \* max_turns ranges over 0..MaxMT in the store specification
MaxAppends == 4   \* add() calls since construction / clear() in SpecStore
MaxRetries == 3   \* retries ranges over 0..MaxRetries in the chat specification
MaxVaried  == 1   \* deviations from the default exchange per UI run

(* Program constants *)

DefaultMaxTurns == 20   \* ConversationManager.__init__(max_turns=20)
DefaultRetries  == 3    \* MedicalLLMClient.chat(retries=3)

----------------------------------------------------------------------------
(* Python str helpers *)

Min(a, b) == IF a < b THEN a ELSE b
Max(a, b) == IF a > b THEN a ELSE b

\* str.lower() on one character (the upper-case letters the model uses)
LowerChar(c) ==
    CASE c = "A" -> "a" [] c = "E" -> "e" [] c = "I" -> "i" [] c = "K" -> "k"
      [] c = "P" -> "p" [] c = "Q" -> "q" [] c = "R" -> "r" [] c = "T" -> "t"
      [] OTHER -> c

\* str.lower()
Lower(s) == [i \in 1..Len(s) |-> LowerChar(s[i])]

\* `kw in s` for str: kw occurs as a contiguous substring of s
Contains(s, kw) ==
    \E i \in 0..(Len(s) - Len(kw)) :
        \A j \in 1..Len(kw) : s[i + j] = kw[j]

IsSpace(c) == c \in {" ", "\n", "\t"}

\* str.strip(): drop leading and trailing whitespace
Strip(s) ==
    LET idx == {i \in 1..Len(s) : ~IsSpace(s[i])}
    IN  IF idx = {} THEN <<>>
        ELSE LET lo == CHOOSE i \in idx : \A j \in idx : i <= j
                 hi == CHOOSE i \in idx : \A j \in idx : i >= j
             IN  SubSeq(s, lo, hi)

----------------------------------------------------------------------------
(* ConversationManager *)

Turn(role, content) == [role |-> role, content |-> content]

\* Python slice h[-n:] (n >= 0).  -0 is 0, so h[-0:] is the whole list.
TailSlice(h, n) ==
    IF n = 0 THEN h
    ELSE SubSeq(h, Max(Len(h) - n, 0) + 1, Len(h))

\* ConversationManager.add: the new value of self.history
AddTurn(h, mt, role, content) ==
    LET h1 == Append(h, Turn(role, content))
    IN  IF Len(h1) > mt * 2 THEN TailSlice(h1, mt * 2) ELSE h1

\* a history view that forgets to leave out the last turn (self.history[:])
to_gemini_history_keep_last(h) ==
    [i \in 1..Len(h) |->
        [role |-> IF h[i].role = "assistant" THEN "model" ELSE "user",
         parts |-> <<[text |-> h[i].content]>>]]

GeminiRole(role) == IF role = "assistant" THEN "model" ELSE "user"

\* ConversationManager.to_gemini_history
to_gemini_history(h) ==
    [i \in 1..Max(Len(h) - 1, 0) |->
        [role |-> GeminiRole(h[i].role), parts |-> <<[text |-> h[i].content]>>]]

\* a prompt lookup that trusts the very last turn to be the user's
latest_user_message_last_only(h) ==
    IF Len(h) > 0 /\ h[Len(h)].role = "user" THEN h[Len(h)].content ELSE <<>>

\* for msg in reversed(self.history): the scan from index i down to 1
RECURSIVE ScanBack(_, _)
ScanBack(h, i) ==
    IF i = 0 THEN <<>>
    ELSE IF h[i].role = "user" THEN h[i].content
    ELSE ScanBack(h, i - 1)

\* ConversationManager.latest_user_message
latest_user_message(h) == ScanBack(h, Len(h))

----------------------------------------------------------------------------
(* Inputs of the store specification *)

Roles    == {"user", "assistant", "system"}
Contents == {<<"a">>, <<"b">>}

chatIdle ==
    /\ chatPc = "idle" /\ attempt = 0 /\ g_history = <<>> /\ user_text = <<>>
    /\ sends = 0 /\ sleeps = <<>> /\ log = <<>> /\ chatResult = [kind |-> "none"]

\* ConversationManager(max_turns): a fresh store
InitStore ==
    /\ max_turns \in 0..MaxMT
    /\ history = <<>>
    /\ appended = <<>>
    /\ view = <<>> /\ latest = <<>> /\ lastOp = "init"
    /\ retries = DefaultRetries
    /\ chatIdle
    /\ uiPc = "none" /\ varied = 0

\* conversation.add(role, content)
Add(role, content) ==
    /\ Len(appended) < MaxAppends
    /\ history' = AddTurn(history, max_turns, role, content)
    /\ appended' = Append(appended, Turn(role, content))
    /\ view' = <<>> /\ latest' = <<>> /\ lastOp' = "add"
    /\ UNCHANGED <<max_turns, chatVars, uiVars>>

\* conversation.clear()
Clear ==
    /\ history' = <<>>
    /\ appended' = <<>>
    /\ view' = <<>> /\ latest' = <<>> /\ lastOp' = "clear"
    /\ UNCHANGED <<max_turns, chatVars, uiVars>>

\* conversation.to_gemini_history(): the returned list is kept in view
ToGeminiHistory ==
    /\ view' = to_gemini_history(history)
    /\ latest' = <<>> /\ lastOp' = "to_gemini_history"
    /\ UNCHANGED <<max_turns, history, appended, chatVars, uiVars>>

\* conversation.latest_user_message(): the returned str is kept in latest
LatestUserMessage ==
    /\ latest' = latest_user_message(history)
    /\ view' = <<>> /\ lastOp' = "latest_user_message"
    /\ UNCHANGED <<max_turns, history, appended, chatVars, uiVars>>

\* conversation.save(): reads self.history into the snapshot file, which is
\* outside the modelled state, and leaves the store alone
Save ==
    /\ view' = <<>> /\ latest' = <<>> /\ lastOp' = "save"
    /\ UNCHANGED <<max_turns, history, appended, chatVars, uiVars>>

NextStore ==
    \/ \E role \in Roles, content \in Contents : Add(role, content)
    \/ Clear
    \/ ToGeminiHistory
    \/ LatestUserMessage
    \/ Save

SpecStore == InitStore /\ [][NextStore]_vars

----------------------------------------------------------------------------
(* MedicalLLMClient.chat *)

KwQuota == <<"q","u","o","t","a">>
KwRate  == <<"r","a","t","e">>
KwApiKey == <<"a","p","i"," ","k","e","y">>
KwAuthentication == <<"a","u","t","h","e","n","t","i","c","a","t","i","o","n">>
KwInvalid == <<"i","n","v","a","l","i","d">>

\* "quota" in err_str or "rate" in err_str
IsRateError(err_str) == Contains(err_str, KwQuota) \/ Contains(err_str, KwRate)

\* "api key" in err_str or "authentication" in err_str or "invalid" in err_str
IsAuthError(err_str) ==
    \/ Contains(err_str, KwApiKey)
    \/ Contains(err_str, KwAuthentication)
    \/ Contains(err_str, KwInvalid)

\* the two tests swapped: the credential test made before the quota test
Classify_auth_first(err_str) ==
    IF IsAuthError(err_str) THEN "auth"
    ELSE IF IsRateError(err_str) THEN "rate"
    ELSE "transient"

\* the quota test left out: a rate-limit failure is retried like any other
Classify_no_rate_test(err_str) ==
    IF IsAuthError(err_str) THEN "auth" ELSE "transient"

\* the except block's two tests, in the order the code makes them
Classify(err_str) ==
    IF IsRateError(err_str) THEN "rate"
    ELSE IF IsAuthError(err_str) THEN "auth"
    ELSE "transient"

\* a retry test one short: the last permitted attempt is never made
MayRetry_one_short(a, r) == a < r - 1

\* if attempt < retries: sleep and continue
MayRetry(a, r) == a < r

\* a fixed pause in place of the growing one
Backoff_fixed(a) == 2

\* time.sleep(2 * attempt)
Backoff(a) == 2 * a

\* The RuntimeError messages (their leading warning/cross emoji left out)
RateLimitMsg == <<"Rate limit hit. Please wait and try again.">>
AuthMsg      == <<"Invalid API key. Check GEMINI_API_KEY in Colab Secrets.">>
FailedMsg    == <<"Failed after retries.">>

\* f"API error after {retries} attempts: {e}"
ExhaustedMsg(r, e) == <<"API error after ", ToString(r), " attempts: ">> \o e

Returned(text) == [kind |-> "text", text |-> text]
Raised(message) == [kind |-> "error", message |-> message]

\* history = conversation.to_gemini_history();
\* user_text = conversation.latest_user_message(); attempt = 1
ChatStart ==
    /\ chatPc = "idle"
    /\ g_history' = to_gemini_history(history)
    /\ user_text' = latest_user_message(history)
    /\ attempt' = 1
    /\ chatPc' = "loop"
    /\ sends' = 0 /\ sleeps' = <<>> /\ log' = <<>>
    /\ chatResult' = [kind |-> "none"]
    /\ UNCHANGED <<retries>>

\* one pass of the try block in which chats.create and send_message both
\* succeed: return response.text
AttemptSucceeds(text) ==
    /\ chatPc = "loop"
    /\ attempt <= retries
    /\ sends' = sends + 1
    /\ chatResult' = Returned(text)
    /\ chatPc' = "returned"
    /\ UNCHANGED <<retries, attempt, g_history, user_text, sleeps, log>>

\* one pass of the try block that raises e, out of chats.create (site =
\* "create", send_message is not reached) or out of send_message (site =
\* "send"), followed by the except block
AttemptFails(e, site) ==
    /\ chatPc = "loop"
    /\ attempt <= retries
    /\ sends' = IF site = "send" THEN sends + 1 ELSE sends
    /\ log' = Append(log, [e |-> e, site |-> site])
    /\ LET class == Classify(Lower(e))
       IN  IF class = "rate"
           THEN /\ chatResult' = Raised(RateLimitMsg)
                /\ chatPc' = "raised"
                /\ UNCHANGED <<attempt, sleeps>>
           ELSE IF class = "auth"
           THEN /\ chatResult' = Raised(AuthMsg)
                /\ chatPc' = "raised"
                /\ UNCHANGED <<attempt, sleeps>>
           ELSE IF MayRetry(attempt, retries)
           THEN /\ sleeps' = Append(sleeps, Backoff(attempt))
                /\ attempt' = attempt + 1
                /\ UNCHANGED <<chatResult, chatPc>>
           ELSE /\ chatResult' = Raised(ExhaustedMsg(retries, e))
                /\ chatPc' = "raised"
                /\ UNCHANGED <<attempt, sleeps>>
    /\ UNCHANGED <<retries, g_history, user_text>>

\* range(1, retries + 1) is exhausted without return or raise (retries < 1):
\* raise RuntimeError("Failed after retries.")
LoopFallsThrough ==
    /\ chatPc = "loop"
    /\ attempt > retries
    /\ chatResult' = Raised(FailedMsg)
    /\ chatPc' = "raised"
    /\ UNCHANGED <<retries, attempt, g_history, user_text, sends, sleeps, log>>

(* Inputs of the chat specification *)

Sp == <<" ">>
FrTimeout == <<"t","i","m","e","o","u","t">>
FrQuota   == <<"Q","u","o","t","a">>
FrRate    == <<"R","A","T","E">>
FrInvalid == <<"I","n","v","a","l","i","d">>
FrApiKey  == <<"A","P","I"," ","k","e","y">>
FrAuth    == <<"A","u","t","h","e","n","t","i","c","a","t","i","o","n">>
FrGenerate == <<"g","e","n","e","r","a","t","e">>

Fragments == {FrTimeout, FrQuota, FrRate, FrInvalid, FrApiKey, FrAuth, FrGenerate}

\* str(e): one fragment, or two joined by a space
Messages == Fragments \cup {f \o Sp \o g : f \in Fragments, g \in Fragments}

Sites == {"create", "send"}

Replies == {<<"ok">>, <<"rest">>}

Welcome == <<"Hello! I'm MedAssist AI (powered by Gemini). ...">>

\* conversations chat() is started on: as on_send leaves them, and empty
ChatStores ==
    { <<>>,
      <<Turn("assistant", Welcome), Turn("user", <<"a">>)>>,
      <<Turn("user", <<"a">>), Turn("assistant", <<"ok">>), Turn("user", <<"b">>)>> }

InitChat ==
    /\ max_turns = DefaultMaxTurns
    /\ history \in ChatStores
    /\ appended = <<>>
    /\ view = <<>> /\ latest = <<>> /\ lastOp = "init"
    /\ retries \in 0..MaxRetries
    /\ chatIdle
    /\ uiPc = "none" /\ varied = 0

NextChat ==
    \/ ChatStart /\ UNCHANGED <<storeVars, uiVars>>
    \/ \E text \in Replies : AttemptSucceeds(text) /\ UNCHANGED <<storeVars, uiVars>>
    \/ \E e \in Messages, site \in Sites :
          AttemptFails(e, site) /\ UNCHANGED <<storeVars, uiVars>>
    \/ LoopFallsThrough /\ UNCHANGED <<storeVars, uiVars>>

SpecChat == InitChat /\ [][NextChat]_vars

----------------------------------------------------------------------------
(* build_chatbot_ui: the handlers.  The widgets, chat_log and the rendered *)
(* HTML take no part in what is stored or sent and are left out.           *)

\* an except clause that forgets to interpolate the error
ErrorReply_without_error(e) ==
    <<"**Error:** ">> \o <<"\n\nPlease check your API key and try again.">>

\* f"**Error:** {e}\n\nPlease check your API key and try again."
ErrorReply(e) ==
    <<"**Error:** ">> \o e \o <<"\n\nPlease check your API key and try again.">>

DefaultText == <<"a">>

\* response.text in the UI runs
UIReplies == {<<"ok">>}

\* user_input.value when Send is clicked
UIInputs == {<<>>, <<" ", "\n">>, <<"a">>, <<" ", "a", "\n">>, <<"b">>}

\* str(e) of the failures the remote endpoint produces in the UI runs
UIMessages == {FrTimeout, FrQuota, FrInvalid \o Sp \o FrApiKey}

\* a deviation from the default exchange is charged against MaxVaried; the
\* failures of one chat() call are charged once
Charge(deviates, already) ==
    IF deviates /\ ~already
    THEN varied < MaxVaried /\ varied' = varied + 1
    ELSE varied' = varied

InitUI ==
    /\ max_turns = DefaultMaxTurns
    /\ history = <<>>
    /\ appended = <<>>
    /\ view = <<>> /\ latest = <<>> /\ lastOp = "init"
    /\ retries = DefaultRetries
    /\ chatIdle
    /\ uiPc = "boot" /\ varied = 0

\* build_chatbot_ui: conversation.add("assistant", welcome)
Boot ==
    /\ uiPc = "boot"
    /\ history' = AddTurn(history, max_turns, "assistant", Welcome)
    /\ uiPc' = "idle"
    /\ UNCHANGED <<max_turns, appended, view, latest, lastOp, chatVars,
                   varied>>

\* on_send: text = user_input.value.strip(); if not text: return
OnSendEmpty(raw) ==
    /\ uiPc = "idle"
    /\ Strip(raw) = <<>>
    /\ UNCHANGED vars

\* on_send up to the call of llm.chat: conversation.add("user", text)
OnSendBegin(raw) ==
    /\ uiPc = "idle"
    /\ Strip(raw) # <<>>
    /\ Charge(Strip(raw) # DefaultText, FALSE)
    /\ history' = AddTurn(history, max_turns, "user", Strip(raw))
    /\ uiPc' = "chat"
    /\ UNCHANGED <<max_turns, appended, view, latest, lastOp, chatVars>>

\* on_send: reply = llm.chat(conversation), entered
OnSendChatStart ==
    /\ uiPc = "chat"
    /\ ChatStart
    /\ UNCHANGED <<storeVars, uiVars>>

\* on_send: an attempt of llm.chat that succeeds
OnSendAttemptSucceeds(text) ==
    /\ uiPc = "chat"
    /\ AttemptSucceeds(text)
    /\ UNCHANGED <<storeVars, uiVars>>

\* on_send: an attempt of llm.chat that fails
OnSendAttemptFails(e, site) ==
    /\ uiPc = "chat"
    /\ AttemptFails(e, site)
    /\ Charge(TRUE, Len(log) > 0)
    /\ UNCHANGED <<storeVars, uiPc>>

\* on_send after llm.chat returned or raised RuntimeError:
\* conversation.add("assistant", reply)
OnSendFinish ==
    /\ uiPc = "chat"
    /\ chatPc \in {"returned", "raised"}
    /\ LET reply == IF chatPc = "returned" THEN chatResult.text
                    ELSE ErrorReply(chatResult.message)
       IN  history' = AddTurn(history, max_turns, "assistant", reply)
    /\ uiPc' = "idle"
    /\ chatPc' = "idle" /\ attempt' = 0 /\ g_history' = <<>> /\ user_text' = <<>>
    /\ sends' = 0 /\ sleeps' = <<>> /\ log' = <<>>
    /\ chatResult' = [kind |-> "none"]
    /\ UNCHANGED <<max_turns, appended, view, latest, lastOp, retries, varied>>

\* on_clear: conversation.clear()
OnClear ==
    /\ uiPc = "idle"
    /\ history' = <<>>
    /\ UNCHANGED <<max_turns, appended, view, latest, lastOp, chatVars, uiVars>>

\* on_save: conversation.save(), which leaves the store alone
OnSave ==
    /\ uiPc = "idle"
    /\ UNCHANGED vars

NextUI ==
    \/ Boot
    \/ \E raw \in UIInputs : OnSendEmpty(raw)
    \/ \E raw \in UIInputs : OnSendBegin(raw)
    \/ OnSendChatStart
    \/ \E text \in UIReplies : OnSendAttemptSucceeds(text)
    \/ \E e \in UIMessages, site \in Sites : OnSendAttemptFails(e, site)
    \/ OnSendFinish
    \/ OnClear
    \/ OnSave

SpecUI == InitUI /\ [][NextUI]_vars

----------------------------------------------------------------------------
(* Claims about chat(), checked under SpecChat *)

HasAny(s, kws) == \E kw \in kws : Contains(Lower(s), kw)

RateWords == {KwQuota, KwRate}
AuthWords == {KwApiKey, KwAuthentication, KwInvalid}

Transient(e) == ~HasAny(e, RateWords) /\ ~HasAny(e, AuthWords)
Permanent(e) == ~Transient(e)

AllTransient == \A i \in 1..Len(log) : Transient(log[i].e)
AllAtSend    == \A i \in 1..Len(log) : log[i].site = "send"
SendFailures == Cardinality({i \in 1..Len(log) : log[i].site = "send"})

\* C2 (state part): at most retries send_message calls, and a failure whose
\* message carries a rate-limit or auth keyword is the last thing chat() did.
C2_Bounded ==
    /\ sends <= retries
    /\ \A i \in 1..Len(log) :
          Permanent(log[i].e) => i = Len(log) /\ chatPc = "raised"

\* C2 (step part): after a permanent failure no step issues a remote call.
C2_NoCallAfterPermanent ==
    (\E i \in 1..Len(log) : Permanent(log[i].e)) => sends' = sends /\ log' = log

\* C2: one chat() makes at most retries remote calls and none after a
\* permanent (rate-limit or auth) failure.
C2_AtMostRetries == []C2_Bounded /\ [][C2_NoCallAfterPermanent]_vars

\* C2 witness: a rate-limit failure on the second of three permitted attempts.
C2_Witness ==
    /\ retries = 3 /\ chatPc = "raised" /\ Len(log) = 2
    /\ Transient(log[1].e) /\ HasAny(log[2].e, RateWords)
    /\ sends = 2

\* C3 as stated: a failure whose message carries an auth keyword, whatever
\* else it carries, ends chat() with the Invalid-API-key error at once.
C3_AuthAlways ==
    \A i \in 1..Len(log) :
        HasAny(log[i].e, AuthWords) =>
            /\ i = Len(log) /\ chatPc = "raised"
            /\ chatResult = Raised(AuthMsg)

\* C3 amended: a failure whose message carries an auth keyword ends chat()
\* at once, with the Invalid-API-key error when the message carries neither
\* "quota" nor "rate" and with the rate-limit error when it does; a first
\* attempt failing so in send_message ends the call after exactly 1 call.
C3_AuthUnlessRate ==
    \A i \in 1..Len(log) :
        HasAny(log[i].e, AuthWords) =>
            /\ i = Len(log) /\ chatPc = "raised" /\ attempt = i
            /\ ~HasAny(log[i].e, RateWords) => chatResult = Raised(AuthMsg)
            /\ HasAny(log[i].e, RateWords) => chatResult = Raised(RateLimitMsg)
            /\ (i = 1 /\ log[i].site = "send") => sends = 1

\* C3 witness: "Invalid API key" out of the first send_message.
C3_Witness ==
    /\ Len(log) = 1 /\ log[1] = [e |-> FrInvalid \o Sp \o FrApiKey, site |-> "send"]
    /\ chatPc = "raised" /\ chatResult = Raised(AuthMsg) /\ sends = 1
    /\ retries = 3

\* C4: while only transient failures have happened and fewer than retries of
\* them, the next attempt is made; when attempt k succeeds after k-1 transient
\* failures chat() returns that response text, having slept 2*a after each
\* failed attempt a, after exactly k passes of the try block (k send_message
\* calls when every failure came out of send_message).
C4_SuccessAfterTransient ==
    /\ (AllTransient /\ Len(log) < retries) =>
          /\ chatPc \in {"idle", "loop", "returned"}
          /\ chatPc # "idle" => attempt = Len(log) + 1
    /\ chatPc = "returned" =>
          /\ AllTransient
          /\ attempt = Len(log) + 1 /\ attempt \in 1..retries
          /\ chatResult.kind = "text" /\ chatResult.text \in Replies
          /\ sends = SendFailures + 1
          /\ AllAtSend => sends = attempt

\* C4 witness: two transient failures, then "ok" on the third of three attempts.
C4_Witness ==
    /\ retries = 3 /\ chatPc = "returned" /\ Len(log) = 2 /\ AllAtSend
    /\ chatResult = Returned(<<"ok">>) /\ sends = 3 /\ attempt = 3

\* C9: with retries >= 1 and only transient failures, chat() sleeps 2*a after
\* failed attempt a < retries, does not sleep after the last one, and ends
\* after exactly retries passes with the error that carries retries and the
\* text of the last failure.
C9_Exhausted ==
    (retries >= 1 /\ AllTransient) =>
        /\ sleeps = [a \in 1..Min(Len(log), retries - 1) |-> 2 * a]
        /\ chatPc = "raised" =>
              /\ Len(log) = retries
              /\ sends = SendFailures
              /\ AllAtSend => sends = retries
              /\ chatResult =
                    Raised(<<"API error after ", ToString(retries), " attempts: ">>
                           \o log[retries].e)
        /\ Len(log) = retries => chatPc = "raised"

\* C9 witness: three transient failures, the last text unlike the first.
C9_Witness ==
    /\ retries = 3 /\ chatPc = "raised" /\ Len(log) = 3 /\ AllTransient
    /\ AllAtSend /\ log[1].e # log[3].e /\ sleeps = <<2, 4>> /\ sends = 3

----------------------------------------------------------------------------
(* Claims about the store, checked under SpecStore *)

UserIdx(h) == {i \in 1..Len(h) : h[i].role = "user"}

IsSuffixOf(s, t) ==
    /\ Len(s) <= Len(t)
    /\ \A i \in 1..Len(s) : s[i] = t[Len(t) - Len(s) + i]

\* C1: after every add the store holds at most 2 * max_turns turns and they
\* are exactly the most recently appended ones, in append order.
C1_BoundedSuffix ==
    /\ Len(history) <= 2 * max_turns
    /\ IsSuffixOf(history, appended)

\* C7 (state part): latest_user_message() returns the content of the most
\* recently appended user turn that is still stored, whatever follows it, and
\* the empty string when the store holds no user turn.
C7_Returned ==
    lastOp = "latest_user_message" =>
        LET pruned == Len(appended) - Len(history)
            stored == {i \in UserIdx(appended) : i > pruned}
        IN  /\ stored = {} => latest = <<>>
            /\ \A i \in stored :
                  (\A j \in stored : j <= i) => latest = appended[i].content
            /\ UserIdx(history) = {} => latest = <<>>
            /\ \A i \in UserIdx(history) :
                  (\A j \in UserIdx(history) : j <= i) => latest = history[i].content

\* C7 (step part): a second call with no add in between returns the same value.
C7_Repeat ==
    (lastOp = "latest_user_message" /\ lastOp' = "latest_user_message")
        => latest' = latest

\* C7: latest_user_message() returns the newest stored user turn's content,
\* "" when there is none, and the same value when called again.
C7_LatestUserMessage == []C7_Returned /\ [][C7_Repeat]_vars

\* C7 witness: a user turn with an assistant turn appended after it was found.
C7_Witness ==
    /\ lastOp = "latest_user_message"
    /\ Len(history) = 2
    /\ history[1].role = "user" /\ history[2].role = "assistant"
    /\ history[1].content # history[2].content
    /\ latest = history[1].content

\* C8 (state part): the view has length len(history) - 1 (0 for the empty
\* store), item i is turn i with assistant relabelled model and user kept,
\* and every role is user or model.
C8_Returned ==
    lastOp = "to_gemini_history" =>
        /\ history = <<>> => view = <<>>
        /\ history # <<>> => Len(view) = Len(history) - 1
        /\ \A i \in 1..Len(view) :
              /\ view[i].parts = <<[text |-> history[i].content]>>
              /\ history[i].role = "assistant" => view[i].role = "model"
              /\ history[i].role = "user" => view[i].role = "user"
              /\ view[i].role \in {"user", "model"}

\* C8 (step part): the call leaves the store unchanged.
C8_StoreKept ==
    lastOp' = "to_gemini_history" => history' = history

\* C8: to_gemini_history() returns all turns but the last, relabelled, in
\* order, and does not change the store.
C8_GeminiHistory == []C8_Returned /\ [][C8_StoreKept]_vars

\* C8 witness: a two-turn store whose first turn is an assistant turn was viewed.
C8_Witness ==
    /\ lastOp = "to_gemini_history"
    /\ Len(history) = 2 /\ history[1].role = "assistant"
    /\ Len(view) = 1 /\ view[1].role = "model"

----------------------------------------------------------------------------
(* Claims about the handlers, checked under SpecUI *)

Last(h) == h[Len(h)]

\* C5: once on_send has entered llm.chat, the one turn the replayed history
\* leaves out is the last stored turn, that turn is the most recent user turn,
\* and its content is the prompt; no replayed turn is that turn.
C5_LivePromptExcluded ==
    (uiPc = "chat" /\ chatPc # "idle") =>
        /\ history # <<>>
        /\ Last(history).role = "user"
        /\ \A i \in UserIdx(history) : i <= Len(history)
        /\ user_text = Last(history).content
        /\ Len(g_history) = Len(history) - 1
        /\ \A i \in 1..Len(g_history) :
              /\ g_history[i].parts = <<[text |-> history[i].content]>>
              /\ g_history[i].role =
                    (IF history[i].role = "user" THEN "user" ELSE "model")

\* C5 witness: chat entered with an earlier user turn of another content stored.
C5_Witness ==
    /\ uiPc = "chat" /\ chatPc = "loop"
    /\ user_text = <<"b">>
    /\ \E i \in 1..Len(g_history) :
          g_history[i].role = "user" /\ g_history[i].parts[1].text = <<"a">>

\* C6 (step part): the part of on_send before llm.chat appends exactly one
\* user turn, the part after it exactly one assistant turn, whose content is
\* the reply or, when chat raised, the error message wrapped for the user.
C6_Appends ==
    /\ (uiPc = "idle" /\ uiPc' = "chat") =>
          /\ Last(history').role = "user" /\ Last(history').content # <<>>
          /\ Len(history') = Min(Len(history) + 1, 2 * DefaultMaxTurns)
          /\ IsSuffixOf(SubSeq(history', 1, Len(history') - 1), history)
    /\ (uiPc = "chat" /\ uiPc' = "idle") =>
          /\ Last(history').role = "assistant"
          /\ chatResult.kind \in {"text", "error"}
          /\ chatResult.kind = "text" => Last(history').content = chatResult.text
          /\ chatResult.kind = "error" =>
                Last(history').content =
                    <<"**Error:** ">> \o chatResult.message
                        \o <<"\n\nPlease check your API key and try again.">>
          /\ Len(history') = Min(Len(history) + 1, 2 * DefaultMaxTurns)
          /\ IsSuffixOf(SubSeq(history', 1, Len(history') - 1), history)
          /\ history'[Len(history') - 1] = Last(history)

\* C6 (state part): between handlers the store never ends with a user turn,
\* and a chat() that raised raised one of the three errors.
C6_Settled ==
    /\ (uiPc = "idle" /\ history # <<>>) => Last(history).role = "assistant"
    /\ (uiPc = "chat" /\ chatPc = "raised") =>
          /\ chatResult.kind = "error" /\ log # <<>>
          /\ chatResult.message \in
                {RateLimitMsg, AuthMsg,
                 <<"API error after ", "3", " attempts: ">> \o Last(log).e}
    /\ uiPc = "chat" => Last(history).role = "user"

\* C6: every on_send with non-empty text appends one user turn and then one
\* assistant turn, the latter holding the error message when chat() raised.
C6_OneUserOneAssistant == []C6_Settled /\ [][C6_Appends]_vars

\* C6 witness: on_send finished after three transient failures.
C6_Witness ==
    /\ uiPc = "idle" /\ Len(history) = 3
    /\ history[2] = Turn("user", <<"a">>)
    /\ history[3] =
          Turn("assistant",
               <<"**Error:** ", "API error after ", "3", " attempts: ">>
                   \o FrTimeout
                   \o <<"\n\nPlease check your API key and try again.">>)

\* C10: every stored assistant reply is immediately preceded by a user turn,
\* and the replayed history never starts with a reply (a model turn other
\* than the welcome message).
C10_PairsKept ==
    /\ \A i \in 1..Len(history) :
          (history[i].role = "assistant" /\ history[i].content # Welcome) =>
              i > 1 /\ history[i - 1].role = "user"
    /\ (g_history # <<>> /\ g_history[1].role = "model") =>
          g_history[1].parts[1].text = Welcome

====
